---- MODULE Spec2Model ----
(***************************************************************************)
(* LaunchLens: the ETL loaders of etl/pipeline.py, the top-level runner of *)
(* main.py and the analyses of analysis/service.py, over the five tables   *)
(* rockets, launchpads, payloads, launches, launch_payload.                *)
(*                                                                         *)
(* Values.  A JSON / SQL scalar is a string, except date_utc and mass_kg,  *)
(* which are numbers: date_utc is written yyyymmdd (ISO-8601 text orders   *)
(* and extracts its year the same way), mass_kg is a natural number.       *)
(* Python None / SQL NULL is NULL for strings and NullNum for numbers.     *)
(* A success rate ROUND(x, 2) is written in hundredths: 75.00 is 7500.     *)
(***************************************************************************)
EXTENDS Integers, Sequences, FiniteSets, TLC

NULL == "NULL"
NullNum == 0 - 1
\* A JSON object or array where a scalar is expected: sqlite3 cannot bind it.
UNBINDABLE == "UNBINDABLE"

Tables == {"rockets", "launchpads", "payloads", "launches", "launch_payload"}

\* The store right after schema/schema.sql ran on a fresh file: five empty tables.
\* A table is the sequence of its rows in rowid (insertion) order.
EmptyStore == [t \in Tables |-> <<>>]

----------------------------------------------------------------------------
(* The schema (schema/schema.sql is not part of the sources: from spec.md §3) *)

\* Primary key columns of each table.
PrimaryKey(t) == IF t = "launch_payload" THEN {"launch_id", "payload_id"} ELSE {"id"}

\* Foreign keys declared by each table: column |-> referenced table (its id).
ForeignKeys(t) ==
    CASE t = "launches" -> [rocket_id |-> "rockets", launchpad_id |-> "launchpads"]
      [] t = "launch_payload" -> [launch_id |-> "launches", payload_id |-> "payloads"]
      [] OTHER -> <<>>

KeyOf(t, row) == [c \in PrimaryKey(t) |-> row[c]]

\* An identifier is required: a NULL in a primary key column violates NOT NULL.
NotNullViolation(t, row) == \E c \in PrimaryKey(t) : row[c] = NULL

\* A row with the same primary key is already in the table.
UniqueViolation(db, t, row) ==
    \E i \in 1..Len(db[t]) : KeyOf(t, db[t][i]) = KeyOf(t, row)

Ids(db, t) == {db[t][i].id : i \in 1..Len(db[t])}

\* A non-NULL foreign key column names no row of the referenced table.
DanglingReference(db, t, row) ==
    \E c \in DOMAIN ForeignKeys(t) :
        row[c] # NULL /\ row[c] \notin Ids(db, ForeignKeys(t)[c])

----------------------------------------------------------------------------
(* The connection: sqlite3.connect(db_path) and connection.execute          *)

\* sqlite3.connect() issues no PRAGMA foreign_keys = ON, and SQLite leaves
\* foreign key enforcement off on every new connection.
foreign_keys == FALSE

\* Columns whose values are numbers in this model (always bindable).
NumericColumns == {"date_utc", "mass_kg"}

\* A parameter sqlite3 can bind: None, int, float, str, bytes.
Bindable(row) == \A c \in DOMAIN row \ NumericColumns : row[c] # UNBINDABLE

\* Python's bool binds as the integers 1 and 0.
Bind(v) == IF v = "true" THEN "1" ELSE IF v = "false" THEN "0" ELSE v

\* INSERT with the conflict on the key going unnoticed: the row is added again.
InsertUnchecked(db, t, row) ==
    IF ~Bindable(row) THEN [db |-> db, raised |-> "ProgrammingError"]
    ELSE IF NotNullViolation(t, row) THEN [db |-> db, raised |-> "none"]
    ELSE [db |-> [db EXCEPT ![t] = Append(@, row)], raised |-> "none"]

\* INSERT OR REPLACE: the stored row with the same key is deleted and the new
\* row inserted.
InsertOrReplace(db, t, row) ==
    IF ~Bindable(row) THEN [db |-> db, raised |-> "ProgrammingError"]
    ELSE IF NotNullViolation(t, row) THEN [db |-> db, raised |-> "none"]
    ELSE [db |-> [db EXCEPT ![t] =
                    Append(SelectSeq(@, LAMBDA old : KeyOf(t, old) # KeyOf(t, row)), row)],
          raised |-> "none"]

\* One INSERT OR IGNORE INTO t VALUES (row) on the connection's view db.
\* Binding fails before SQLite sees the statement; OR IGNORE skips a row that
\* violates NOT NULL or the primary key; a foreign key violation (only when
\* enforcement is on) is not covered by OR IGNORE and raises.
InsertOrIgnore(db, t, row) ==
    IF ~Bindable(row) THEN [db |-> db, raised |-> "ProgrammingError"]
    ELSE IF NotNullViolation(t, row) \/ UniqueViolation(db, t, row)
         THEN [db |-> db, raised |-> "none"]
    ELSE IF foreign_keys /\ DanglingReference(db, t, row)
         THEN [db |-> db, raised |-> "IntegrityError"]
    ELSE [db |-> [db EXCEPT ![t] = Append(@, row)], raised |-> "none"]

\* The body of a loader's for loop: the statements in order, up to the first
\* one that raises.  A step is [row |-> r] (an execute) or [raises |-> e]
\* (the Python code between two executes raises e).
RECURSIVE ExecuteAll(_, _, _)
ExecuteAll(db, t, steps) ==
    IF steps = <<>> THEN [db |-> db, raised |-> "none"]
    ELSE IF "raises" \in DOMAIN Head(steps)
         THEN [db |-> db, raised |-> Head(steps).raises]
    ELSE LET r == InsertOrIgnore(db, t, Head(steps).row)
         IN  IF r.raised # "none" THEN r ELSE ExecuteAll(r.db, t, Tail(steps))

\* A rollback that also loses what earlier transactions committed.
RollbackToEmpty(committed, view) == EmptyStore

\* Connection.__exit__ on an exception: back to the last committed state.
Rollback(committed, view) == committed

\* The loop without the `with` block's rollback: what ran before the exception stays.
TransactionNoRollback(db, t, steps) == ExecuteAll(db, t, steps)

\* `with self.connection:` around the loop: commit when the body returns,
\* roll back and re-raise when it raises.
Transaction(db, t, steps) ==
    LET r == ExecuteAll(db, t, steps)
    IN  IF r.raised = "none" THEN r
        ELSE [db |-> Rollback(db, r.db), raised |-> r.raised]

----------------------------------------------------------------------------
(* etl/pipeline.py: the loaders                                             *)

\* The tuples the loaders bind: dict.get(key) of each record, None (NULL)
\* for a key the record lacks.
RocketRow(rocket) == [id |-> rocket.id, name |-> rocket.name, type |-> rocket.type]

LaunchpadRow(pad) ==
    [id |-> pad.id, name |-> pad.name, locality |-> pad.locality, region |-> pad.region]

PayloadRow(payload) ==
    [id |-> payload.id, name |-> payload.name, type |-> payload.type,
     mass_kg |-> payload.mass_kg, orbit |-> payload.orbit]

LaunchRow(launch) ==
    [id |-> launch.id, name |-> launch.name, date_utc |-> launch.date_utc,
     success |-> Bind(launch.success), rocket_id |-> launch.rocket,
     launchpad_id |-> launch.launchpad]

\* An inner loop that stops one payload short of the end of the list.
PayloadStepsDroppingLast(launch) ==
    CASE launch.payloads.json = "absent" -> <<>>
      [] launch.payloads.json = "null" -> << [raises |-> "TypeError"] >>
      [] OTHER -> [k \in 1..(Len(launch.payloads.items) - 1) |->
                     [row |-> [launch_id |-> launch.id,
                               payload_id |-> launch.payloads.items[k]]]]

\* launch.get("payloads", []): the list, [] when the key is absent; iterating
\* a JSON null raises TypeError.
PayloadSteps(launch) ==
    CASE launch.payloads.json = "absent" -> <<>>
      [] launch.payloads.json = "null" -> << [raises |-> "TypeError"] >>
      [] OTHER -> [k \in 1..Len(launch.payloads.items) |->
                     [row |-> [launch_id |-> launch.id,
                               payload_id |-> launch.payloads.items[k]]]]

RECURSIVE LaunchPayloadSteps(_)
LaunchPayloadSteps(launches) ==
    IF launches = <<>> THEN <<>>
    ELSE PayloadSteps(Head(launches)) \o LaunchPayloadSteps(Tail(launches))

LoaderOps ==
    {"insert_rockets", "insert_launchpads", "insert_payloads", "insert_launches",
     "insert_launch_payloads"}

\* The statements of each loader's loop, in order.
Steps(op, records) ==
    CASE op = "insert_rockets" ->
           [i \in 1..Len(records) |-> [row |-> RocketRow(records[i])]]
      [] op = "insert_launchpads" ->
           [i \in 1..Len(records) |-> [row |-> LaunchpadRow(records[i])]]
      [] op = "insert_payloads" ->
           [i \in 1..Len(records) |-> [row |-> PayloadRow(records[i])]]
      [] op = "insert_launches" ->
           [i \in 1..Len(records) |-> [row |-> LaunchRow(records[i])]]
      [] op = "insert_launch_payloads" -> LaunchPayloadSteps(records)

TargetTable(op) ==
    CASE op = "insert_rockets" -> "rockets"
      [] op = "insert_launchpads" -> "launchpads"
      [] op = "insert_payloads" -> "payloads"
      [] op = "insert_launches" -> "launches"
      [] op = "insert_launch_payloads" -> "launch_payload"

\* One loader call on the committed store db: the store afterwards, what was
\* raised to the caller, and the count the final LOGGER.info reports (the
\* length of the input; nothing is logged when the call raises).
Loader(db, op, records) ==
    LET r == Transaction(db, TargetTable(op), Steps(op, records))
    IN  [db |-> r.db, raised |-> r.raised,
         reported |-> IF r.raised = "none" THEN Len(records) ELSE NullNum]

----------------------------------------------------------------------------
(* analysis/service.py: the SQL of the analyses                             *)

\* ROUND(100.0 * successful / total, 2), in hundredths; SQLite rounds a half
\* away from zero.  total >= 1 in every group.
SuccessRate(successful, total) == (20000 * successful + total) \div (2 * total)

\* strftime('%Y', date_utc): NULL for a NULL date.
Year(date_utc) == IF date_utc = NullNum THEN NullNum ELSE date_utc \div 10000

\* CASE WHEN success THEN 1 ELSE 0 END: 1 for the stored integer 1 only
\* (0 and NULL both give 0).
Successful(launch) == launch.success = "1"

LaunchIndex(db) == 1..Len(db.launches)

\* The row of table t with the given id (ids are unique).
RowById(db, t, id) == CHOOSE r \in {db[t][i] : i \in 1..Len(db[t])} : r.id = id

\* FROM launches l JOIN rockets r ON l.rocket_id = r.id: the launches kept.
WithRocket(db) == {i \in LaunchIndex(db) : db.launches[i].rocket_id \in Ids(db, "rockets")}

\* ... JOIN launchpads lp ON l.launchpad_id = lp.id
WithLaunchpad(db) ==
    {i \in LaunchIndex(db) : db.launches[i].launchpad_id \in Ids(db, "launchpads")}

RocketName(db, i) == RowById(db, "rockets", db.launches[i].rocket_id).name
LaunchpadName(db, i) == RowById(db, "launchpads", db.launches[i].launchpad_id).name

\* The sequences that list the rows of S once each in the order given by
\* InOrder(S), the pairs <<a, b>> where a may come before b (a total
\* preorder): the results ORDER BY allows, rows that compare equal coming in
\* any order.
Ordered(S, InOrder) ==
    LET sorted[T \in SUBSET S] ==
            IF T = {} THEN {<<>>}
            ELSE UNION {{<<first>> \o rest : rest \in sorted[T \ {first}]} :
                           first \in {a \in T : \A b \in T : <<a, b>> \in InOrder}}
    IN  sorted[S]

\* One output row of a success-rate aggregation over the group G of launches.
Aggregate(db, G) ==
    [count |-> Cardinality(G),
     successful |-> Cardinality({i \in G : Successful(db.launches[i])}),
     success_rate |-> SuccessRate(Cardinality({i \in G : Successful(db.launches[i])}),
                                  Cardinality(G))]

\* SELECT strftime('%Y', date_utc) AS year, COUNT(*) AS launch_count
\* FROM launches GROUP BY year ORDER BY year ASC
launches_per_year_sql(db) ==
    LET rows ==
            {[year |-> y,
                  launch_count |-> Cardinality({i \in LaunchIndex(db) :
                                                  Year(db.launches[i].date_utc) = y})] :
                    y \in {Year(db.launches[i].date_utc) : i \in LaunchIndex(db)}}
    IN  Ordered(rows, {p \in rows \X rows : p[1].year <= p[2].year})

\* SELECT r.name AS rocket, COUNT(*) AS total_launches, SUM(...) AS successful,
\* ROUND(...) AS success_rate FROM launches l JOIN rockets r ...
\* GROUP BY r.name ORDER BY success_rate DESC
rocket_success_rates_sql(db) ==
    LET rows ==
            {LET G == {i \in WithRocket(db) : RocketName(db, i) = n}
                 IN  [rocket |-> n, total_launches |-> Aggregate(db, G).count,
                      successful |-> Aggregate(db, G).successful,
                      success_rate |-> Aggregate(db, G).success_rate] :
                    n \in {RocketName(db, i) : i \in WithRocket(db)}}
    IN  Ordered(rows, {p \in rows \X rows : p[1].success_rate >= p[2].success_rate})

\* SELECT lp.name AS launchpad, ... GROUP BY lp.name ORDER BY total_launches DESC
launchpad_performance_sql(db) ==
    LET rows ==
            {LET G == {i \in WithLaunchpad(db) : LaunchpadName(db, i) = n}
                 IN  [launchpad |-> n, total_launches |-> Aggregate(db, G).count,
                      successful |-> Aggregate(db, G).successful,
                      success_rate |-> Aggregate(db, G).success_rate] :
                    n \in {LaunchpadName(db, i) : i \in WithLaunchpad(db)}}
    IN  Ordered(rows, {p \in rows \X rows : p[1].total_launches >= p[2].total_launches})

\* HAVING launches >= 3, HAVING missions >= 3, HAVING launches >= 2
MinLaunches == 3
MinMissions == 3
MinYearLaunches == 2
\* The mass bin boundaries, the first recent year, head(5) / tail(5)
LightBelow == 500
MediumBelow == 2000
RecentFrom == 2018
TopRows == 5

\* FROM payloads p JOIN launch_payload lp ON p.id = lp.payload_id
\* JOIN launches l ON l.id = lp.launch_id: the launch_payload rows kept.
Missions(db) ==
    {k \in 1..Len(db.launch_payload) :
        /\ db.launch_payload[k].payload_id \in Ids(db, "payloads")
        /\ db.launch_payload[k].launch_id \in Ids(db, "launches")}

MissionPayload(db, k) == RowById(db, "payloads", db.launch_payload[k].payload_id)
MissionLaunch(db, k) == RowById(db, "launches", db.launch_payload[k].launch_id)

\* SELECT p.mass_kg, l.date_utc ... WHERE p.mass_kg IS NOT NULL
\* (no ORDER BY: listed here in launch_payload order)
payload_mass_over_time_sql(db) ==
    LET kept == SelectSeq([k \in 1..Len(db.launch_payload) |-> k],
                          LAMBDA k : k \in Missions(db)
                                     /\ MissionPayload(db, k).mass_kg # NullNum)
    IN  [n \in 1..Len(kept) |->
            [mass_kg |-> MissionPayload(db, kept[n]).mass_kg,
             date_utc |-> MissionLaunch(db, kept[n]).date_utc]]

\* SELECT r.name AS rocket, lp.name AS launchpad, COUNT(*) AS launches, ...
\* GROUP BY r.name, lp.name HAVING launches >= 3
\* ORDER BY success_rate DESC, launches DESC
rocket_launchpad_sql(db) ==
    LET J == WithRocket(db) \cap WithLaunchpad(db)
        G(g) == {i \in J : RocketName(db, i) = g[1] /\ LaunchpadName(db, i) = g[2]}
        rows ==
            {[rocket |-> g[1], launchpad |-> g[2],
                      launches |-> Aggregate(db, G(g)).count,
                      successful |-> Aggregate(db, G(g)).successful,
                      success_rate |-> Aggregate(db, G(g)).success_rate] :
                        g \in {gg \in {<<RocketName(db, i), LaunchpadName(db, i)>> : i \in J} :
                                  Cardinality(G(gg)) >= MinLaunches}}
        InOrder == {p \in rows \X rows :
                      \/ p[1].success_rate > p[2].success_rate
                      \/ /\ p[1].success_rate = p[2].success_rate
                         /\ p[1].launches >= p[2].launches}
    IN  Ordered(rows, InOrder)

\* Bins whose upper boundary belongs to the lower bin.
mass_bin_inclusive(mass_kg) ==
    IF mass_kg <= LightBelow THEN "0-500 kg"
    ELSE IF mass_kg <= MediumBelow THEN "500-2000 kg"
    ELSE "2000+ kg"

\* CASE WHEN p.mass_kg < 500 THEN '0-500 kg' WHEN p.mass_kg < 2000
\* THEN '500-2000 kg' ELSE '2000+ kg' END
mass_bin(mass_kg) ==
    IF mass_kg < LightBelow THEN "0-500 kg"
    ELSE IF mass_kg < MediumBelow THEN "500-2000 kg"
    ELSE "2000+ kg"

\* SELECT p.orbit, CASE ... END AS mass_bin, COUNT(*) AS missions, ...
\* WHERE p.mass_kg IS NOT NULL AND p.orbit IS NOT NULL
\* GROUP BY orbit, mass_bin HAVING missions >= 3
\* ORDER BY success_rate DESC, missions DESC
orbit_mass_sql(db) ==
    LET J == {k \in Missions(db) : /\ MissionPayload(db, k).mass_kg # NullNum
                                   /\ MissionPayload(db, k).orbit # NULL}
        Key(k) == <<MissionPayload(db, k).orbit, mass_bin(MissionPayload(db, k).mass_kg)>>
        G(g) == {k \in J : Key(k) = g}
        Won(g) == Cardinality({k \in G(g) : Successful(MissionLaunch(db, k))})
        rows ==
            {[orbit |-> g[1], mass_bin |-> g[2],
                      missions |-> Cardinality(G(g)), successful |-> Won(g),
                      success_rate |-> SuccessRate(Won(g), Cardinality(G(g)))] :
                        g \in {gg \in {Key(k) : k \in J} : Cardinality(G(gg)) >= MinMissions}}
        InOrder == {p \in rows \X rows :
                      \/ p[1].success_rate > p[2].success_rate
                      \/ /\ p[1].success_rate = p[2].success_rate
                         /\ p[1].missions >= p[2].missions}
    IN  Ordered(rows, InOrder)

\* SELECT strftime('%Y', date_utc) AS year, COUNT(*) AS launches, ...
\* FROM launches GROUP BY year ORDER BY year ASC
success_by_year_sql(db) ==
    LET rows ==
            {LET G == {i \in LaunchIndex(db) : Year(db.launches[i].date_utc) = y}
                 IN  [year |-> y, launches |-> Aggregate(db, G).count,
                      successful |-> Aggregate(db, G).successful,
                      success_rate |-> Aggregate(db, G).success_rate] :
                    y \in {Year(db.launches[i].date_utc) : i \in LaunchIndex(db)}}
    IN  Ordered(rows, {p \in rows \X rows : p[1].year <= p[2].year})

\* SELECT r.name AS rocket, lp.name AS launchpad, strftime('%Y', l.date_utc) AS year,
\* COUNT(*) AS launches, ... GROUP BY r.name, lp.name, year HAVING launches >= 2
\* (no ORDER BY: the set of rows)
config_stability_sql(db) ==
    LET J == WithRocket(db) \cap WithLaunchpad(db)
        Key(i) == <<RocketName(db, i), LaunchpadName(db, i), Year(db.launches[i].date_utc)>>
        G(g) == {i \in J : Key(i) = g}
    IN  {[rocket |-> g[1], launchpad |-> g[2], year |-> g[3],
          launches |-> Aggregate(db, G(g)).count,
          successful |-> Aggregate(db, G(g)).successful,
          success_rate |-> Aggregate(db, G(g)).success_rate] :
            g \in {gg \in {Key(i) : i \in J} : Cardinality(G(gg)) >= MinYearLaunches}}

\* SELECT r.name AS rocket, l.date_utc, l.success ... WHERE l.success IS NOT NULL
\* ORDER BY r.name, l.date_utc: the launches kept.
SequentialLaunches(db) == {i \in WithRocket(db) : db.launches[i].success # NULL}

----------------------------------------------------------------------------
(* analysis/service.py: the analyses and the files they write               *)

Artifacts ==
    {"launches_per_year.png", "rocket_success_rates.png", "payload_mass_over_time.png",
     "launchpad_performance.png", "top_launchpad_configs.csv", "orbit_mass_profiles.csv",
     "success_by_year.csv", "launch_recommendation.md", "config_stability.csv",
     "rocket_fatigue.csv"}

\* A file of analysis/plots: absent, or holding the table (or record) written.
NoFile == <<>>
File(content) == <<content>>
NoArtifacts == [f \in Artifacts |-> NoFile]

\* A float that is not a number (the mean of no values).
NaN == 0 - 2

Min(a, b) == IF a <= b THEN a ELSE b
\* DataFrame.head(5), DataFrame.tail(5)
HeadRows(frame) == SubSeq(frame, 1, Min(Len(frame), TopRows))
TailRows(frame) == SubSeq(frame, Len(frame) - Min(Len(frame), TopRows) + 1, Len(frame))

RECURSIVE Sum(_)
Sum(values) == IF values = <<>> THEN 0 ELSE Head(values) + Sum(Tail(values))

\* round(mean(values), 2) of values given in hundredths: NaN for no value; a
\* mean exactly half way between two hundredths goes to either neighbour
\* (which one depends on the binary floating-point value).
RoundedMean(values) ==
    IF values = <<>> THEN {NaN}
    ELSE LET n == Len(values)
             q == Sum(values) \div n
             r == Sum(values) % n
         IN  IF 2 * r < n THEN {q} ELSE IF 2 * r > n THEN {q + 1} ELSE {q, q + 1}

\* The frames each SQL text of the analyses can return on the store db (one
\* frame, or several where ORDER BY leaves the order of equal rows open).
Select(sql, db) ==
    CASE sql = "launches_per_year" -> launches_per_year_sql(db)
      [] sql = "rocket_success_rates" -> rocket_success_rates_sql(db)
      [] sql = "payload_mass_over_time" -> {payload_mass_over_time_sql(db)}
      [] sql = "launchpad_performance" -> launchpad_performance_sql(db)
      [] sql = "rocket_launchpad" -> rocket_launchpad_sql(db)
      [] sql = "orbit_mass" -> orbit_mass_sql(db)
      [] sql = "success_by_year" -> success_by_year_sql(db)
      [] sql = "config_stability" -> {config_stability_sql(db)}
      [] sql = "rocket_sequential" -> {SequentialLaunches(db)}

\* A query whose connection block also empties the launches table.
queryDeleting(db, sql) ==
    [db |-> [db EXCEPT !.launches = <<>>], frames |-> Select(sql, db)]

\* MissionAnalyzer.query: pd.read_sql_query(sql, conn) inside
\* `with sqlite3.connect(self.db_path) as conn`.  The statements are SELECTs:
\* the store after the block is the store before it.
query(db, sql) == [db |-> db, frames |-> Select(sql, db)]

\* What an analysis leaves behind: the store, the files, and what it logged.
Outcome(db, files, level, caught) ==
    [db |-> db, files |-> files, level |-> level, caught |-> caught]

\* launches_per_year, rocket_success_rates, payload_mass_over_time,
\* launchpad_performance: query, warn and return on an empty frame, else plot.
Chart(db, files, sql, name) ==
    LET q == query(db, sql)
    IN  {IF frame = <<>> THEN Outcome(q.db, files, "warning", "none")
         ELSE Outcome(q.db, [files EXCEPT ![name] = File(frame)], "info", "none") :
            frame \in q.frames}

\* The last row of the frame in place of the first.
TopRowLast(frame) ==
    IF frame = <<>> THEN [raised |-> "IndexError", row |-> <<>>]
    ELSE [raised |-> "none", row |-> frame[Len(frame)]]

\* An iloc[0] that yields a row of blanks on an empty frame.
TopRowOrBlank(frame) ==
    IF frame = <<>>
    THEN [raised |-> "none",
          row |-> [rocket |-> NULL, launchpad |-> NULL, orbit |-> NULL, mass_bin |-> NULL]]
    ELSE [raised |-> "none", row |-> frame[1]]

\* frame.iloc[0]: the first row, IndexError on an empty frame.
TopRow(frame) ==
    IF frame = <<>> THEN [raised |-> "IndexError", row |-> <<>>]
    ELSE [raised |-> "none", row |-> frame[1]]

\* plan_successful_launch: the three queries and their CSVs in order, then the
\* recommendation; any exception ends the method where it is raised and is
\* logged, the files written before it stay.
Plan(db, files) ==
    LET q1 == query(db, "rocket_launchpad")
        q2 == query(q1.db, "orbit_mass")
        q3 == query(q2.db, "success_by_year")
        Written(combos, orbits, years) ==
            LET f1 == [files EXCEPT !["top_launchpad_configs.csv"] = File(HeadRows(combos))]
                f2 == [f1 EXCEPT !["orbit_mass_profiles.csv"] = File(HeadRows(orbits))]
                f3 == [f2 EXCEPT !["success_by_year.csv"] = File(TailRows(years))]
                recent == SelectSeq(years, LAMBDA y : y.year >= RecentFrom)
                rates == [k \in 1..Len(recent) |-> recent[k].success_rate]
                rec == TopRow(combos)
                orbit_rec == TopRow(orbits)
            IN  IF \E k \in 1..Len(years) : years[k].year = NullNum
                THEN {Outcome(q3.db, f2, "error", "TypeError")}
                ELSE IF rec.raised # "none" \/ orbit_rec.raised # "none"
                THEN {Outcome(q3.db, f3, "error", "IndexError")}
                ELSE {Outcome(q3.db,
                              [f3 EXCEPT !["launch_recommendation.md"] =
                                  File([rocket |-> rec.row.rocket,
                                        launchpad |-> rec.row.launchpad,
                                        orbit |-> orbit_rec.row.orbit,
                                        mass_bin |-> orbit_rec.row.mass_bin,
                                        timeframe |-> "2018-2023",
                                        expected_success_rate |-> avg_recent])],
                              "info", "none") :
                        avg_recent \in RoundedMean(rates)}
    IN  UNION {Written(combos, orbits, years) :
                 <<combos, orbits, years>> \in q1.frames \X q2.frames \X q3.frames}

\* A numbering of each rocket's launches in the order of the rows.
launch_number_by_row(db, frame, i) ==
    1 + Cardinality({j \in frame : RocketName(db, j) = RocketName(db, i) /\ j < i})

\* dataframe.groupby("rocket")["date_utc"].rank(method="first"): the 1-based
\* place of launch i among its rocket's launches by date, equal dates in
\* frame order.
launch_number(db, frame, i) ==
    1 + Cardinality({j \in frame :
            /\ RocketName(db, j) = RocketName(db, i)
            /\ \/ db.launches[j].date_utc < db.launches[i].date_utc
               \/ db.launches[j].date_utc = db.launches[i].date_utc /\ j < i})

\* Groups by launch number alone, the launches of all rockets together.
FatigueGroupsByNumber(db, frame) ==
    LET G(n) == {i \in frame : launch_number(db, frame, i) = n}
    IN  {[rocket |-> NULL, launch_number |-> n,
          launches |-> Aggregate(db, G(n)).count,
          successful |-> Aggregate(db, G(n)).successful,
          success_rate |-> Aggregate(db, G(n)).success_rate] :
            n \in {launch_number(db, frame, i) : i \in frame}}

\* groupby(["rocket", "launch_number"]).agg(count, sum) with the success rate.
FatigueGroups(db, frame) ==
    LET Key(i) == <<RocketName(db, i), launch_number(db, frame, i)>>
        G(g) == {i \in frame : Key(i) = g}
    IN  {[rocket |-> g[1], launch_number |-> g[2],
          launches |-> Aggregate(db, G(g)).count,
          successful |-> Aggregate(db, G(g)).successful,
          success_rate |-> Aggregate(db, G(g)).success_rate] :
            g \in {Key(i) : i \in frame}}

RECURSIVE GCD(_, _)
GCD(a, b) == IF b = 0 THEN a ELSE GCD(b, a % b)

RECURSIVE CommonDivisor(_)
CommonDivisor(values) ==
    IF values = <<>> THEN 0 ELSE GCD(Head(values), CommonDivisor(Tail(values)))

RECURSIVE SumOfSquares(_)
SumOfSquares(values) ==
    IF values = <<>> THEN 0
    ELSE Head(values) * Head(values) + SumOfSquares(Tail(values))

\* Series.mean of the values (hundredths), as the exact fraction sum / count.
Mean(values) == [sum |-> Sum(values), count |-> Len(values)]

\* Series.std (sample standard deviation, ddof = 1), given by its square, the
\* exact fraction num / den; for a single value that is 0 / 0: the std is NaN.
Std(values) ==
    [squared |->
        [num |-> Len(values) * SumOfSquares(values) - Sum(values) * Sum(values),
         den |-> Len(values) * (Len(values) - 1)]]

\* (std / mean).round(2), in hundredths: NaN where std is NaN (one value) or
\* the mean is zero (then std is zero too: 0 / 0); a quotient exactly half way
\* between two hundredths goes to either neighbour.  The quotient does not
\* change when all values are divided by a common divisor.
CoefficientOfVariation(values) ==
    IF Len(values) < 2 \/ Sum(values) = 0 THEN {NaN}
    ELSE LET d == CommonDivisor(values)
             v == [k \in 1..Len(values) |-> values[k] \div d]
             n == Len(v)
         IN  UNION {{c \in 0..(100 * n) :
                        /\ c = 0 \/ (2 * c - 1) * (2 * c - 1) * q.den <= q.num
                        /\ q.num <= (2 * c + 1) * (2 * c + 1) * q.den} :
                    q \in {[num |-> 40000 * n * (n * SumOfSquares(v) - Sum(v) * Sum(v)),
                            den |-> (n - 1) * Sum(v) * Sum(v)]}}

\* The rows of a set, listed in some order without repetition.
RECURSIVE Listed(_)
Listed(S) ==
    IF S = {} THEN <<>>
    ELSE LET x == CHOOSE y \in S : TRUE IN <<x>> \o Listed(S \ {x})

\* A sort by cv from the largest to the smallest.
SortedByCVDescending(stats) ==
    Ordered(stats, {p \in stats \X stats : p[2].cv = NaN \/ (p[1].cv # NaN /\ p[1].cv >= p[2].cv)})

\* stats.sort_values(by="cv"): ascending, the rows without cv last, rows of
\* equal cv in any order.
SortedByCV(stats) ==
    Ordered(stats, {p \in stats \X stats : p[2].cv = NaN \/ (p[1].cv # NaN /\ p[1].cv <= p[2].cv)})

\* groupby(["rocket", "launchpad"])["success_rate"].agg(["mean", "std"]) with
\* the cv column: the tables it can give on the yearly frame.
ConfigStats(frame) ==
    LET configs == {<<row.rocket, row.launchpad>> : row \in frame}
        Rates(g) == LET rows == Listed({row \in frame : <<row.rocket, row.launchpad>> = g})
                    IN  [k \in 1..Len(rows) |-> rows[k].success_rate]
        tables[C \in SUBSET configs] ==
            IF C = {} THEN {{}}
            ELSE LET g == CHOOSE c \in C : TRUE
                 IN  UNION {{table \cup {[rocket |-> g[1], launchpad |-> g[2],
                                          mean |-> Mean(rates), std |-> Std(rates),
                                          cv |-> cv]} :
                                table \in tables[C \ {g}],
                                cv \in CoefficientOfVariation(rates)} :
                            rates \in {Rates(g)}}
    IN  tables[configs]

\* analyze_config_stability: the yearly rates of each configuration, their
\* mean, std and cv per configuration, sorted by cv, written to
\* config_stability.csv.
Stability(db, files) ==
    LET q == query(db, "config_stability")
    IN  {Outcome(q.db, [files EXCEPT !["config_stability.csv"] = File(stats)],
                 "info", "none") :
            stats \in UNION {SortedByCV(table) :
                               table \in UNION {ConfigStats(frame) : frame \in q.frames}}}

\* detect_rocket_fatigue: a launch without date has no rank, and the cast of
\* the ranks to int raises.
Fatigue(db, files) ==
    LET q == query(db, "rocket_sequential")
    IN  {IF \E i \in frame : db.launches[i].date_utc = NullNum
         THEN Outcome(q.db, files, "error", "ValueError")
         ELSE Outcome(q.db,
                      [files EXCEPT !["rocket_fatigue.csv"] = File(FatigueGroups(db, frame))],
                      "info", "none") :
            frame \in q.frames}

\* One analysis of MissionAnalyzer on the store db with the files present:
\* the outcomes it can have.
Analyze(op, db, files) ==
    CASE op = "launches_per_year" ->
           Chart(db, files, "launches_per_year", "launches_per_year.png")
      [] op = "rocket_success_rates" ->
           Chart(db, files, "rocket_success_rates", "rocket_success_rates.png")
      [] op = "payload_mass_over_time" ->
           Chart(db, files, "payload_mass_over_time", "payload_mass_over_time.png")
      [] op = "launchpad_performance" ->
           Chart(db, files, "launchpad_performance", "launchpad_performance.png")
      [] op = "plan_successful_launch" -> Plan(db, files)
      [] op = "analyze_config_stability" -> Stability(db, files)
      [] op = "detect_rocket_fatigue" -> Fatigue(db, files)

AnalysisOps ==
    {"launches_per_year", "rocket_success_rates", "payload_mass_over_time",
     "launchpad_performance", "plan_successful_launch", "analyze_config_stability",
     "detect_rocket_fatigue"}

----------------------------------------------------------------------------
(* Inputs: the raw JSON records a caller may hand to the loaders            *)

\* Longest batch handed to one loader call.
MaxBatch == 2
\* Loader calls made on one connection.
MaxCalls == 2

Batches(S) == UNION {[1..n -> S] : n \in 0..MaxBatch}

RocketRecords ==
    { [id |-> "r1", name |-> "Falcon 1", type |-> "rocket"],
      [id |-> "r1", name |-> "Falcon 9", type |-> NULL],
      [id |-> NULL, name |-> "Falcon 9", type |-> "rocket"],
      [id |-> "r2", name |-> UNBINDABLE, type |-> "rocket"] }

LaunchpadRecords ==
    { [id |-> "p1", name |-> "KSC LC 39A", locality |-> "Cape Canaveral", region |-> "Florida"],
      [id |-> "p2", name |-> UNBINDABLE, locality |-> NULL, region |-> NULL] }

PayloadRecords ==
    { [id |-> "y1", name |-> "Starlink", type |-> "Satellite", mass_kg |-> 400, orbit |-> "LEO"],
      [id |-> "y1", name |-> "Starlink", type |-> "Satellite", mass_kg |-> NullNum, orbit |-> NULL],
      [id |-> "y2", name |-> UNBINDABLE, type |-> NULL, mass_kg |-> 2000, orbit |-> "GTO"] }

PayloadList(items) == [json |-> "array", items |-> items]

LaunchRecords ==
    { [id |-> "l1", name |-> "FalconSat", date_utc |-> 20060324, success |-> "false",
       rocket |-> "r1", launchpad |-> "p1", payloads |-> PayloadList(<<"y1", "y1">>)],
      [id |-> "l2", name |-> "CRS-20", date_utc |-> 20200307, success |-> NULL,
       rocket |-> "r2", launchpad |-> "p2", payloads |-> PayloadList(<<"y2">>)],
      [id |-> NULL, name |-> "Demo", date_utc |-> NullNum, success |-> "true",
       rocket |-> NULL, launchpad |-> "p1", payloads |-> [json |-> "absent", items |-> <<>>]],
      [id |-> "l3", name |-> UNBINDABLE, date_utc |-> 20200307, success |-> "true",
       rocket |-> "r1", launchpad |-> "p1", payloads |-> [json |-> "null", items |-> <<>>]] }

RocketBatches == Batches(RocketRecords)
LaunchpadBatches == Batches(LaunchpadRecords)
PayloadBatches == Batches(PayloadRecords)
LaunchBatches == Batches(LaunchRecords)

----------------------------------------------------------------------------
(* State                                                                    *)

VARIABLES
    store,   \* the committed content of data/spacex.sqlite, table |-> rows
    last,    \* the last call: its name, argument, exception and logged count,
             \* and whether it repeated the call before it
    calls,   \* loader calls made so far on the DataPipeline's connection
    json,    \* data/files: endpoint |-> the records of <endpoint>.json
    plots,   \* analysis/plots: file name |-> NoFile or File(content)
    pc,      \* MainPipeline.run_all: "idle", the call it is about to make,
             \* "done" after the last one, "raised" once an exception left it
    trail    \* the calls the current run_all has made, with what each raised

vars == <<store, last, calls, json, plots, pc, trail>>

NoCall ==
    [op |-> "none", arg |-> <<>>, raised |-> "none", reported |-> NullNum,
     repeated |-> FALSE, level |-> "none", caught |-> "none"]

ENDPOINTS == <<"launches", "rockets", "launchpads", "payloads">>

NoJson == [e \in {ENDPOINTS[k] : k \in 1..Len(ENDPOINTS)} |-> <<>>]

\* DataPipeline(db_path) on a store whose schema was just created.
Init ==
    /\ store = EmptyStore
    /\ last = NoCall
    /\ calls = 0
    /\ json = NoJson
    /\ plots = NoArtifacts
    /\ pc = "idle"
    /\ trail = <<>>

\* A loader call as the caller sees it.
Call(op, records) ==
    /\ calls < MaxCalls
    /\ LET r == Loader(store, op, records)
       IN  /\ store' = r.db
           /\ last' = [op |-> op, arg |-> records, raised |-> r.raised,
                       reported |-> r.reported,
                       repeated |-> last.op = op /\ last.arg = records,
                       level |-> IF r.raised = "none" THEN "info" ELSE "none",
                       caught |-> "none"]
    /\ calls' = calls + 1
    /\ UNCHANGED <<json, plots, pc, trail>>

insert_rockets == \E rockets \in RocketBatches : Call("insert_rockets", rockets)

insert_launchpads ==
    \E launchpads \in LaunchpadBatches : Call("insert_launchpads", launchpads)

insert_payloads == \E payloads \in PayloadBatches : Call("insert_payloads", payloads)

insert_launches == \E launches \in LaunchBatches : Call("insert_launches", launches)

insert_launch_payloads ==
    \E launches \in LaunchBatches : Call("insert_launch_payloads", launches)

Next ==
    \/ insert_rockets
    \/ insert_launchpads
    \/ insert_payloads
    \/ insert_launches
    \/ insert_launch_payloads

Spec == Init /\ [][Next]_vars

----------------------------------------------------------------------------
(* main.py: MainPipeline.run_all, one step per call it makes                *)

\* The SpaceX API answers of one day, endpoint |-> records.
Rocket(id, name) == [id |-> id, name |-> name, type |-> "rocket"]

Launchpad(id, name) ==
    [id |-> id, name |-> name, locality |-> "Cape Canaveral", region |-> "Florida"]

Payload(id, mass_kg, orbit) ==
    [id |-> id, name |-> "Starlink", type |-> "Satellite", mass_kg |-> mass_kg,
     orbit |-> orbit]

Launch(id, date_utc, success, rocket, payloads) ==
    [id |-> id, name |-> "CRS", date_utc |-> date_utc, success |-> success,
     rocket |-> rocket, launchpad |-> "p1", payloads |-> payloads]

Api(launches, rockets, payloads) ==
    [launches |-> launches, rockets |-> rockets,
     launchpads |-> <<Launchpad("p1", "KSC LC 39A")>>, payloads |-> payloads]

GoodRockets == <<Rocket("r1", "Falcon 9")>>

GoodPayloads ==
    <<Payload("y1", 400, "LEO"), Payload("y2", 450, "LEO"), Payload("y3", 300, "LEO")>>

GoodLaunches ==
    <<Launch("l1", 20180206, "true", "r1", PayloadList(<<"y1">>)),
      Launch("l2", 20190411, "true", "r1", PayloadList(<<"y2">>)),
      Launch("l3", 20200307, "false", "r1", PayloadList(<<"y3">>))>>

Responses ==
    { \* three launches of one configuration with one payload each
      Api(GoodLaunches, GoodRockets, GoodPayloads),
      \* a single launch whose outcome is not known yet
      Api(<<Launch("l1", 20221001, NULL, "r1", PayloadList(<<"y1">>))>>,
          GoodRockets, <<Payload("y1", 400, "LEO")>>),
      \* a launch of a rocket the rockets endpoint does not list
      Api(<<Launch("l1", 20180206, "true", "r9", PayloadList(<<"y1">>))>>,
          GoodRockets, <<Payload("y1", 400, "LEO")>>),
      \* a rocket whose name is a JSON object
      Api(GoodLaunches, <<Rocket("r1", "Falcon 9"), Rocket("r2", UNBINDABLE)>>,
          GoodPayloads),
      \* a launch whose success is a JSON object
      Api(<<Launch("l1", 20180206, UNBINDABLE, "r1", PayloadList(<<"y1">>))>>,
          GoodRockets, GoodPayloads),
      \* a launch whose payloads is null
      Api(<<Launch("l1", 20180206, "true", "r1", [json |-> "null", items |-> <<>>])>>,
          GoodRockets, GoodPayloads) }

\* A run that loads the launches before the entities they refer to.
run_launches_first ==
    <<"fetch_all", "insert_launches", "insert_rockets", "insert_launchpads",
      "insert_payloads", "insert_launch_payloads">>

\* DataPipeline.run: the retrieval, then the loaders in this order.
run ==
    <<"fetch_all", "insert_rockets", "insert_launchpads", "insert_payloads",
      "insert_launches", "insert_launch_payloads">>

\* MainPipeline.run_analysis: the analyses in this order.
run_analysis ==
    <<"launches_per_year", "rocket_success_rates", "payload_mass_over_time",
      "launchpad_performance", "plan_successful_launch", "analyze_config_stability",
      "detect_rocket_fatigue">>

\* MainPipeline.run_all: reset_database, run_etl, run_analysis, the training, the index.
run_all ==
    <<"reset_database">> \o run \o run_analysis
        \o <<"train_and_save_model", "build_vector_store">>

\* The call that follows the call `op` in run_all.
After(op) ==
    LET k == CHOOSE i \in 1..Len(run_all) : run_all[i] = op
    IN  IF k = Len(run_all) THEN "done" ELSE run_all[k + 1]

\* A run_all that calls a failed call again.
ContinueRetrying(op, raised) == IF raised = "none" THEN After(op) ELSE op

\* A run_all that logs an exception of a call and goes on to the next call.
ContinueAnyway(op, raised) == After(op)

\* Where run_all is once the call `op` has returned or raised: no call of
\* run_all, run_etl or DataPipeline.run is inside a try block.
Continue(op, raised) == IF raised = "none" THEN After(op) ELSE "raised"

\* The file each loader of DataPipeline.run is given.
Source(op) ==
    CASE op = "insert_rockets" -> "rockets"
      [] op = "insert_launchpads" -> "launchpads"
      [] op = "insert_payloads" -> "payloads"
      [] op = "insert_launches" -> "launches"
      [] op = "insert_launch_payloads" -> "launches"

\* One call of run_all made: it is logged on the trail and run_all moves on.
Step(op, raised) ==
    /\ trail' = Append(trail, [op |-> op, raised |-> raised])
    /\ pc' = Continue(op, raised)

\* MainPipeline().run_all() called (again): its first call deletes the
\* database file and recreates the schema.
reset_database ==
    /\ pc \in {"idle", "done", "raised"}
    /\ store' = EmptyStore
    /\ trail' = <<[op |-> "reset_database", raised |-> "none"]>>
    /\ pc' = Continue("reset_database", "none")
    /\ last' = [NoCall EXCEPT !.op = "reset_database", !.level = "info"]
    /\ UNCHANGED <<calls, json, plots>>

\* fetch_all: the endpoints in order, each file written after a good answer;
\* the first failing request raises and leaves the later files as they were.
fetch_all ==
    /\ pc = "fetch_all"
    /\ \E api \in Responses, answered \in 0..Len(ENDPOINTS) :
          /\ json' = [e \in DOMAIN json |->
                        IF \E k \in 1..answered : ENDPOINTS[k] = e
                        THEN api[e] ELSE json[e]]
          /\ LET raised == IF answered = Len(ENDPOINTS) THEN "none" ELSE "HTTPError"
             IN  /\ Step("fetch_all", raised)
                 /\ last' = [NoCall EXCEPT !.op = "fetch_all", !.raised = raised]
    /\ UNCHANGED <<store, calls, plots>>

\* The loader run has reached, on the file run gives it.
load ==
    /\ pc \in LoaderOps
    /\ LET r == Loader(store, pc, json[Source(pc)])
       IN  /\ store' = r.db
           /\ Step(pc, r.raised)
           /\ last' = [NoCall EXCEPT !.op = pc, !.arg = json[Source(pc)],
                                     !.raised = r.raised, !.reported = r.reported,
                                     !.level = IF r.raised = "none" THEN "info" ELSE "none"]
    /\ UNCHANGED <<calls, json, plots>>

\* The analysis run_analysis has reached.
analyze ==
    /\ pc \in AnalysisOps
    /\ \E o \in Analyze(pc, store, plots) :
          /\ store' = o.db
          /\ plots' = o.files
          /\ Step(pc, "none")
          /\ last' = [NoCall EXCEPT !.op = pc, !.level = o.level, !.caught = o.caught]
    /\ UNCHANGED <<calls, json>>

\* train_and_save_model reads the store and fits the classifier; the fit may
\* raise (on no rows, or rows of one class).
train_and_save_model ==
    /\ pc = "train_and_save_model"
    /\ \E raised \in {"none", "XGBoostError"} :
          /\ Step("train_and_save_model", raised)
          /\ last' = [NoCall EXCEPT !.op = "train_and_save_model", !.raised = raised]
    /\ UNCHANGED <<store, calls, json, plots>>

Indexed ==
    {"launch_recommendation.md", "top_launchpad_configs.csv",
     "orbit_mass_profiles.csv", "success_by_year.csv"}

\* build_vector_store: loader.load() raises on a file that is not there; the
\* embedding request may fail.
build_vector_store ==
    /\ pc = "build_vector_store"
    /\ \E raised \in IF \E f \in Indexed : plots[f] = NoFile
                     THEN {"RuntimeError"} ELSE {"none", "APIError"} :
          /\ Step("build_vector_store", raised)
          /\ last' = [NoCall EXCEPT !.op = "build_vector_store", !.raised = raised]
    /\ UNCHANGED <<store, calls, json, plots>>

NextRun ==
    \/ reset_database
    \/ fetch_all
    \/ load
    \/ analyze
    \/ train_and_save_model
    \/ build_vector_store

RunSpec == Init /\ [][NextRun]_vars

----------------------------------------------------------------------------
(* analysis/jobs.py: the analyses run one by one on a populated store       *)

\* Launches of one rocket in a populated store.
MaxLaunches == 5

Outcomes(successes, failures, unknown) ==
    [k \in 1..(successes + failures + unknown) |->
        IF k <= successes THEN "1" ELSE IF k <= successes + failures THEN "0" ELSE NULL]

\* A store as the loaders leave it: two rockets, one launchpad, the launches
\* of Falcon 9 with the given outcomes one year apart, each carrying the one
\* payload, and one launch of Falcon 1.
Populated(outcomes) ==
    [rockets |-> <<Rocket("r1", "Falcon 9"), Rocket("r2", "Falcon 1")>>,
     launchpads |-> <<Launchpad("p1", "KSC LC 39A")>>,
     payloads |-> <<Payload("y1", 400, "LEO")>>,
     launches |->
        [k \in 1..Len(outcomes) |->
            [id |-> "l" \o ToString(k), name |-> "CRS", date_utc |-> 20100000 + 10000 * k + 101,
             success |-> outcomes[k], rocket_id |-> "r1", launchpad_id |-> "p1"]]
        \o <<[id |-> "l0", name |-> "FalconSat", date_utc |-> 20060324,
              success |-> "0", rocket_id |-> "r2", launchpad_id |-> "p1"]>>,
     launch_payload |->
        [k \in 1..Len(outcomes) |->
            [launch_id |-> "l" \o ToString(k), payload_id |-> "y1"]]]

Stores ==
    {Populated(Outcomes(s, f, u)) :
        <<s, f, u>> \in {c \in (0..MaxLaunches) \X (0..MaxLaunches) \X (0..MaxLaunches) :
                            c[1] + c[2] + c[3] <= MaxLaunches}}

InitQuery ==
    /\ store \in Stores
    /\ last = NoCall
    /\ calls = 0
    /\ json = NoJson
    /\ plots = NoArtifacts
    /\ pc = "idle"
    /\ trail = <<>>

\* One job of analysis/jobs.py: a MissionAnalyzer on the store, one analysis.
Job(op) ==
    /\ \E o \in Analyze(op, store, plots) :
          /\ store' = o.db
          /\ plots' = o.files
          /\ last' = [NoCall EXCEPT !.op = op, !.level = o.level, !.caught = o.caught]
    /\ UNCHANGED <<calls, json, pc, trail>>

launches_per_year == Job("launches_per_year")
rocket_success_rates == Job("rocket_success_rates")
payload_mass_over_time == Job("payload_mass_over_time")
launchpad_performance == Job("launchpad_performance")
plan_successful_launch == Job("plan_successful_launch")
analyze_config_stability == Job("analyze_config_stability")
detect_rocket_fatigue == Job("detect_rocket_fatigue")

NextQuery ==
    \/ launches_per_year
    \/ rocket_success_rates
    \/ payload_mass_over_time
    \/ launchpad_performance
    \/ plan_successful_launch
    \/ analyze_config_stability
    \/ detect_rocket_fatigue

QuerySpec == InitQuery /\ [][NextQuery]_vars

----------------------------------------------------------------------------
(* analysis/service.py: the synthesizer on stores with payloads of all sizes *)

\* Payload masses around the bin boundaries, and the unknown mass.
Masses == {NullNum, 0, 499, 500, 501, 1999, 2000, 2001}

\* A populated store whose three Falcon 9 launches each carry two payloads,
\* of the given masses.
Carrying(mass1, mass2) ==
    LET base == Populated(Outcomes(2, 1, 0))
    IN  [base EXCEPT
            !.payloads = <<Payload("y1", mass1, "LEO"), Payload("y2", mass2, "LEO")>>,
            !.launch_payload =
                base.launch_payload
                    \o [k \in 1..Len(base.launch_payload) |->
                           [base.launch_payload[k] EXCEPT !.payload_id = "y2"]]]

InitMass ==
    /\ store \in {Carrying(mass1, mass2) : mass1, mass2 \in Masses}
    /\ last = NoCall
    /\ calls = 0
    /\ json = NoJson
    /\ plots = NoArtifacts
    /\ pc = "idle"
    /\ trail = <<>>

NextMass ==
    \/ payload_mass_over_time
    \/ plan_successful_launch

MassSpec == InitMass /\ [][NextMass]_vars

----------------------------------------------------------------------------
(* etl/pipeline.py: the loaders called on a store that holds entities       *)

\* The store after one rocket, one launchpad, two payloads and two launches
\* were loaded, no association yet.
LoadedStore ==
    LET s1 == Loader(EmptyStore, "insert_rockets", <<Rocket("r1", "Falcon 1")>>).db
        s2 == Loader(s1, "insert_launchpads", <<Launchpad("p1", "KSC LC 39A")>>).db
        s3 == Loader(s2, "insert_payloads",
                     <<Payload("y1", 400, "LEO"), Payload("y2", 2000, "GTO")>>).db
    IN  Loader(s3, "insert_launches",
               <<Launch("l1", 20060324, "false", "r1", PayloadList(<<"y1", "y1">>)),
                 Launch("l2", 20200307, NULL, "r1", PayloadList(<<"y2">>))>>).db

InitLoaded ==
    /\ store = LoadedStore
    /\ last = NoCall
    /\ calls = 0
    /\ json = NoJson
    /\ plots = NoArtifacts
    /\ pc = "idle"
    /\ trail = <<>>

LoadedSpec == InitLoaded /\ [][Next]_vars

----------------------------------------------------------------------------
(* analysis/service.py: the fatigue analysis on launches ingested in any    *)
(* order                                                                    *)

\* Launches of the sequenced rocket.
MaxSequence == 3

\* A populated store whose Falcon 9 launches were ingested in the order of the
\* sequence dates, a permutation: the k-th ingested launch is dated the
\* dates[k]-th month of 2020 and has the k-th outcome.
Sequenced(dates, outcomes) ==
    LET base == Populated(outcomes)
    IN  [base EXCEPT
            !.launches =
                [k \in 1..Len(base.launches) |->
                    IF k <= Len(dates)
                    THEN [base.launches[k] EXCEPT !.date_utc = 20200001 + 100 * dates[k]]
                    ELSE base.launches[k]]]

SequencedStores ==
    UNION {{Sequenced(dates, outcomes) :
                dates \in Permutations(1..n), outcomes \in [1..n -> {"1", "0", NULL}]} :
            n \in 1..MaxSequence}

InitFatigue ==
    /\ store \in SequencedStores
    /\ last = NoCall
    /\ calls = 0
    /\ json = NoJson
    /\ plots = NoArtifacts
    /\ pc = "idle"
    /\ trail = <<>>

NextFatigue ==
    \/ rocket_success_rates
    \/ detect_rocket_fatigue

FatigueSpec == InitFatigue /\ [][NextFatigue]_vars

----------------------------------------------------------------------------
(* analysis/service.py: the synthesizer and the stability analysis on       *)
(* configurations flown twice a year                                        *)

\* Years a configuration was flown.
MaxYears == 3

\* The outcomes of the two launches of a year: both successful, one, none.
YearOutcomes == {<<"1", "1">>, <<"1", "0">>, <<"0", "0">>}

\* The launches of a rocket from the one launchpad, two a year from 2017 on,
\* with the given outcomes year by year.
TwiceAYear(rocket_id, years) ==
    [k \in 1..(2 * Len(years)) |->
        [id |-> rocket_id \o "-" \o ToString(k), name |-> "CRS",
         date_utc |-> 20160101 + 10000 * ((k + 1) \div 2) + 100 * (k % 2),
         success |-> years[(k + 1) \div 2][2 - (k % 2)],
         rocket_id |-> rocket_id, launchpad_id |-> "p1"]]

\* Each of the launches carrying the one payload.
EachCarrying(launches, payload_id) ==
    [k \in 1..Len(launches) |-> [launch_id |-> launches[k].id, payload_id |-> payload_id]]

\* A store as the loaders leave it: two rockets flown from the one launchpad,
\* the launches of the first carrying a light payload to LEO, those of the
\* second a heavy one to GTO.
Flown(years1, years2) ==
    [rockets |-> <<Rocket("r1", "Falcon 9"), Rocket("r2", "Falcon 1")>>,
     launchpads |-> <<Launchpad("p1", "KSC LC 39A")>>,
     payloads |-> <<Payload("y1", 400, "LEO"), Payload("y2", 4000, "GTO")>>,
     launches |-> TwiceAYear("r1", years1) \o TwiceAYear("r2", years2),
     launch_payload |-> EachCarrying(TwiceAYear("r1", years1), "y1")
                            \o EachCarrying(TwiceAYear("r2", years2), "y2")]

FlownStores ==
    {Flown(years1, years2) :
        years1 \in UNION {[1..n -> YearOutcomes] : n \in 1..MaxYears},
        years2 \in {<<<<"1", "1">>, <<"1", "1">>>>, <<<<"0", "0">>, <<"0", "0">>>>,
                    <<<<"1", "1">>, <<"1", "0">>>>,
                    <<<<"1", "1">>, <<"1", "0">>, <<"0", "0">>>>}}

InitFlown ==
    /\ store \in FlownStores
    /\ last = NoCall
    /\ calls = 0
    /\ json = NoJson
    /\ plots = NoArtifacts
    /\ pc = "idle"
    /\ trail = <<>>

NextFlown ==
    \/ plan_successful_launch
    \/ analyze_config_stability

FlownSpec == InitFlown /\ [][NextFlown]_vars

----------------------------------------------------------------------------
(* Properties of the loaders                                                *)

Rows(db, t) == {db[t][i] : i \in 1..Len(db[t])}
Keys(db, t) == {KeyOf(t, db[t][i]) : i \in 1..Len(db[t])}
IsPrefix(s, t) == Len(s) <= Len(t) /\ \A i \in 1..Len(s) : t[i] = s[i]
\* The step from the state before a loader call to the state after it.
Called == last'.op \in LoaderOps /\ calls' = calls + 1
\* The rows the last call tried to insert, in order.
Attempted(call) ==
    LET st == Steps(call.op, call.arg)
    IN  SelectSeq(st, LAMBDA x : "row" \in DOMAIN x)

\* C1 (as claimed): whenever insert_launches is given a launch whose rocket id
\* is not in the rockets table, the call raises to the caller and the launches
\* table holds no row of that launch.
C1_DanglingRocketRaises ==
    last.op = "insert_launches" =>
        \A i \in 1..Len(last.arg) :
            LET row == LaunchRow(last.arg[i])
            IN  (row.rocket_id # NULL /\ row.rocket_id \notin Ids(store, "rockets"))
                    => last.raised # "none" /\ row \notin Rows(store, "launches")

\* C2 (as claimed): in every state reached by loader calls, every stored launch
\* names a stored rocket and a stored launchpad, and every stored launch_payload
\* row names a stored launch and a stored payload.
C2_ReferentialIntegrity ==
    \A t \in Tables : \A i \in 1..Len(store[t]) : ~DanglingReference(store, t, store[t][i])

NoDuplicateKeys(db) ==
    \A t \in Tables : \A i, j \in 1..Len(db[t]) :
        KeyOf(t, db[t][i]) = KeyOf(t, db[t][j]) => i = j

\* C3: a loader call that repeats the previous call (same loader, identical
\* batch) leaves every table exactly as the first run left it, and no table
\* holds two rows with the same key.
C3_Idempotent ==
    [][(Called /\ last'.op = last.op /\ last'.arg = last.arg)
          => store' = store /\ NoDuplicateKeys(store')]_vars

C3_Witness ==
    /\ last.repeated /\ last.raised = "none"
    /\ \E i \in 1..Len(last.arg) : RocketRow(last.arg[i]) \in Rows(store, "rockets")

\* A record of the call whose key is stored with other attribute values.
Conflicting(db, call) ==
    {i \in 1..Len(Attempted(call)) :
        LET row == Attempted(call)[i].row
        IN  /\ KeyOf(TargetTable(call.op), row) \in Keys(db, TargetTable(call.op))
            /\ row \notin Rows(db, TargetTable(call.op))}

\* C4: when a loader is given a record whose id is already stored with other
\* attribute values, every row stored before the call is still there, at its
\* place and with its values, and the id still has exactly one row.
C4_IgnoredNotUpdated ==
    [][(Called /\ Conflicting(store, last') # {})
          => /\ IsPrefix(store[TargetTable(last'.op)], store'[TargetTable(last'.op)])
             /\ NoDuplicateKeys(store')]_vars

C4_Witness ==
    /\ last.op = "insert_payloads" /\ last.raised = "none" /\ Len(last.arg) = 1
    /\ Conflicting(store, last) # {}

\* C5: a loader call that raises leaves its table as it was before the call
\* (no row of the batch was added); a call that returns has stored every row
\* of the batch whose key was not yet present (the first row of each new key).
C5_BatchAtomic ==
    [][Called =>
          LET t == TargetTable(last'.op)
              rows == Attempted(last')
          IN  IF last'.raised # "none"
              THEN store'[t] = store[t]
              ELSE \A i \in 1..Len(rows) :
                      (/\ ~NotNullViolation(t, rows[i].row)
                       /\ KeyOf(t, rows[i].row) \notin Keys(store, t)
                       /\ \A j \in 1..(i - 1) : KeyOf(t, rows[j].row) # KeyOf(t, rows[i].row))
                          => rows[i].row \in Rows(store', t)]_vars

\* A failed rocket batch whose first record alone would have been inserted.
C5_Witness ==
    /\ last.op = "insert_rockets" /\ last.raised = "ProgrammingError"
    /\ Len(last.arg) = 2 /\ last.arg[1].id = "r1" /\ last.arg[2].name = UNBINDABLE
    /\ store.rockets = <<>>

\* C6: a loader call that raises leaves every table, and so every batch
\* committed by an earlier call, exactly as it was.
C6_EarlierBatchesIntact ==
    [][(Called /\ last'.raised # "none") => store' = store]_vars

C6_Witness ==
    /\ last.op = "insert_launches" /\ last.raised # "none"
    /\ last.arg[1].id = "l1"
    /\ store.rockets # <<>> /\ store.launches = <<>>

----------------------------------------------------------------------------
(* Properties of a full run                                                 *)

\* The trail has the call `op`, returned without exception, before place k.
CommittedBefore(op, k) ==
    \E j \in 1..(k - 1) : trail[j].op = op /\ trail[j].raised = "none"

\* A call of DataPipeline.run raised before place k of the trail.
IngestionFailedBefore(k) ==
    \E j \in 1..(k - 1) :
        /\ trail[j].op \in {run[i] : i \in 1..Len(run)}
        /\ trail[j].raised # "none"

\* C7: in every execution of DataPipeline.run the rocket, launchpad and
\* payload batches are all committed before the launch batch starts, and the
\* launch batch is committed before the launch_payload batch starts.
C7_IngestionOrder ==
    \A k \in 1..Len(trail) :
        /\ trail[k].op = "insert_launches" =>
              /\ CommittedBefore("insert_rockets", k)
              /\ CommittedBefore("insert_launchpads", k)
              /\ CommittedBefore("insert_payloads", k)
        /\ trail[k].op = "insert_launch_payloads" =>
              CommittedBefore("insert_launches", k)

\* A run whose launch_payload batch committed rows, after its launch batch.
C7_Witness ==
    /\ \E k \in 1..Len(trail) :
          trail[k].op = "insert_launch_payloads" /\ trail[k].raised = "none"
    /\ store.launches # <<>>
    /\ store.launch_payload # <<>>

\* C8: in every execution of MainPipeline.run_all the store reset completes
\* before any insert (the first loader starts on the empty store), every
\* ingestion batch has committed before the first analysis query is issued,
\* and once ingestion failed no analysis query is issued in that run.
C8_PhaseOrder ==
    /\ pc \in {"fetch_all", "insert_rockets"} => store = EmptyStore
    /\ \A k \in 1..Len(trail) :
          /\ trail[k].op \in LoaderOps => CommittedBefore("reset_database", k)
          /\ trail[k].op \in AnalysisOps =>
                /\ \A op \in LoaderOps : CommittedBefore(op, k)
                /\ ~IngestionFailedBefore(k)

\* A run stopped by a failed loader, with no analysis on its trail, that
\* follows a run whose analyses wrote their files.
C8_Witness ==
    /\ pc = "raised"
    /\ trail # <<>>
    /\ trail[Len(trail)].op \in LoaderOps
    /\ trail[Len(trail)].raised # "none"
    /\ plots["launch_recommendation.md"] # NoFile

----------------------------------------------------------------------------
(* Properties of the analyses                                               *)

\* C9: running any of the seven analyses, whether it succeeds or fails,
\* leaves all five tables unchanged.
C9_AnalysisReadOnly == [][last'.op \in AnalysisOps => store' = store]_vars

\* An analysis that failed on a store with launches, after another one
\* succeeded and wrote its chart.
C9_Witness ==
    /\ last.op \in AnalysisOps
    /\ last.caught # "none"
    /\ store.launches # <<>>
    /\ plots["rocket_success_rates.png"] # NoFile

\* The launches of the rocket named n with the stored success value v.
WithOutcome(db, n, v) ==
    {i \in WithRocket(db) : RocketName(db, i) = n /\ db.launches[i].success = v}

\* C10: each rocket's success_rate equals round(100 * S / (S + F), 2), S and
\* F the numbers of its launches with success true and false; launches with
\* unknown success count in neither numerator nor denominator.
C10_SuccessRateFormula ==
    last.op = "rocket_success_rates" /\ last.level = "info" =>
        LET frame == plots["rocket_success_rates.png"][1]
        IN  \A k \in 1..Len(frame) :
                LET S == Cardinality(WithOutcome(store, frame[k].rocket, "1"))
                    F == Cardinality(WithOutcome(store, frame[k].rocket, "0"))
                IN  S + F > 0 => frame[k].success_rate = SuccessRate(S, S + F)

\* The launches of the pair (rocket n, launchpad m) whose success is known.
Qualifying(db, n, m) ==
    {i \in WithRocket(db) \cap WithLaunchpad(db) :
        /\ RocketName(db, i) = n
        /\ LaunchpadName(db, i) = m
        /\ db.launches[i].success # NULL}

\* The (rocket, launchpad) name pairs of the launches of the store.
Pairs(db) ==
    {<<RocketName(db, i), LaunchpadName(db, i)>> :
        i \in WithRocket(db) \cap WithLaunchpad(db)}

\* C11: a (rocket, launchpad) pair appears in the combinations view if and
\* only if it has at least 3 launches with known success, however many
\* launches of unknown success it also has.
C11_ThresholdOnQualifying ==
    last.op = "plan_successful_launch" =>
        LET frame == plots["top_launchpad_configs.csv"][1]
        IN  {<<frame[k].rocket, frame[k].launchpad>> : k \in 1..Len(frame)}
              = {g \in Pairs(store) : Cardinality(Qualifying(store, g[1], g[2])) >= 3}

\* The step of run_analysis that calls plan_successful_launch.
Planned == pc = "plan_successful_launch" /\ last'.op = "plan_successful_launch"

\* A ranked view of the synthesizer is empty on the store db.
EmptyView(db) == rocket_launchpad_sql(db) = {<<>>} \/ orbit_mass_sql(db) = {<<>>}

\* C12: on a store where the orbit / mass-bin view or the rocket / launchpad
\* view is empty, plan_successful_launch neither creates nor overwrites
\* launch_recommendation.md.
C12_NoRecommendationOnEmptyView ==
    [][Planned /\ EmptyView(store) =>
          plots'["launch_recommendation.md"] = plots["launch_recommendation.md"]]_vars

\* The synthesizer failed on an empty view while the recommendation of an
\* earlier run was on disk.
C12_Witness ==
    /\ last.op = "plan_successful_launch"
    /\ last.caught = "IndexError"
    /\ EmptyView(store)
    /\ store.launches # <<>>
    /\ plots["launch_recommendation.md"] # NoFile

\* C13: when a ranked view is empty, plan_successful_launch ends in an error
\* its caller sees (the call raises), it does not return normally.
C13_EmptyResultSurfaced ==
    last.op = "plan_successful_launch" /\ EmptyView(store) => last.raised # "none"

----------------------------------------------------------------------------
(* Properties of the loaders: references, malformed records, associations   *)

\* The (launch_id, payload_id) rows the call embeds whose payload is not stored.
DanglingPairs(db, call) ==
    {k \in 1..Len(Attempted(call)) :
        Attempted(call)[k].row.payload_id \notin Ids(db, "payloads")}

\* C14: when insert_launch_payloads is given a launch that embeds a payload
\* id absent from the payloads table, the error is surfaced (raised or logged
\* as a warning or error), no row of the dangling pair is stored, and every
\* other pair of the batch whose launch and payload exist is stored.
C14_DanglingPayloadSurfaced ==
    (last.op = "insert_launch_payloads" /\ DanglingPairs(store, last) # {}) =>
        /\ last.raised # "none" \/ last.level \in {"warning", "error"}
        /\ \A k \in 1..Len(Attempted(last)) :
              LET row == Attempted(last)[k].row
              IN  IF k \in DanglingPairs(store, last)
                  THEN row \notin Rows(store, "launch_payload")
                  ELSE row.launch_id \in Ids(store, "launches")
                          => row \in Rows(store, "launch_payload")

EntityLoaders ==
    {"insert_rockets", "insert_launchpads", "insert_payloads", "insert_launches"}

\* The records of the call that have no id.
WithoutId(call) == {i \in 1..Len(call.arg) : call.arg[i].id = NULL}

\* C15: when a batch of well-formed records contains a record without an id,
\* the loader does not abort, no row with a null id is stored, every other
\* record of the batch has its row in the table, and the skipped records are
\* reported: the count the loader reports leaves them out.
C15_MalformedSkippedAndReported ==
    (/\ last.op \in EntityLoaders
     /\ WithoutId(last) # {}
     /\ \A k \in 1..Len(Attempted(last)) : Bindable(Attempted(last)[k].row)) =>
        /\ last.raised = "none"
        /\ \A row \in Rows(store, TargetTable(last.op)) : row.id # NULL
        /\ \A i \in 1..Len(last.arg) :
              i \notin WithoutId(last) => last.arg[i].id \in Ids(store, TargetTable(last.op))
        /\ last.reported = Len(last.arg) - Cardinality(WithoutId(last))

\* The (launch_id, payload_id) pairs the launch records embed.
EmbeddedPairs(launches) ==
    UNION {{[launch_id |-> launches[i].id, payload_id |-> launches[i].payloads.items[k]] :
                k \in 1..Len(launches[i].payloads.items)} :
             i \in 1..Len(launches)}

\* C16: after insert_launch_payloads(launches) has returned on a store where
\* all referenced launches and payloads exist, launch_payload holds its
\* previous rows and exactly the pairs embedded in the input, each pair once
\* (also when it occurs twice in the input or was stored already); a launch
\* without payloads list adds no row.
C16_AssociationsAdded ==
    [][(/\ Called
        /\ last'.op = "insert_launch_payloads"
        /\ last'.raised = "none"
        /\ \A pair \in EmbeddedPairs(last'.arg) :
              /\ pair.launch_id \in Ids(store, "launches")
              /\ pair.payload_id \in Ids(store, "payloads"))
          => /\ Rows(store', "launch_payload")
                  = Rows(store, "launch_payload") \cup EmbeddedPairs(last'.arg)
             /\ IsPrefix(store.launch_payload, store'.launch_payload)
             /\ NoDuplicateKeys(store')]_vars

\* The call repeated a batch of a launch that embeds the same payload twice
\* and a launch without payloads list; the table holds the one pair.
C16_Witness ==
    /\ last.op = "insert_launch_payloads" /\ last.raised = "none" /\ last.repeated
    /\ Len(last.arg) = 2
    /\ last.arg[1].id = "l1" /\ last.arg[1].payloads.items = <<"y1", "y1">>
    /\ last.arg[2].payloads.json = "absent"
    /\ store.launch_payload = <<[launch_id |-> "l1", payload_id |-> "y1"]>>
    /\ "y1" \in Ids(store, "payloads") /\ "l1" \in Ids(store, "launches")

----------------------------------------------------------------------------
(* Properties of a full run: failures                                       *)

\* C17: in DataPipeline.run a failed call is the last call of the run: the
\* exception leaves run and run_all at once, no later batch is executed, and
\* no call is made a second time.
C17_FailStop ==
    /\ \A k \in 1..Len(trail) :
          (trail[k].op \in {run[i] : i \in 1..Len(run)} /\ trail[k].raised # "none")
              => k = Len(trail) /\ pc = "raised"
    /\ \A j, k \in 1..Len(trail) : trail[j].op = trail[k].op => j = k

\* The launch batch failed after the entity batches committed, and the run
\* ended there without insert_launch_payloads.
C17_Witness ==
    /\ pc = "raised"
    /\ trail # <<>>
    /\ trail[Len(trail)] = [op |-> "insert_launches", raised |-> "ProgrammingError"]
    /\ store.rockets # <<>>
    /\ store.launches = <<>>

----------------------------------------------------------------------------
(* Properties of the views                                                  *)

\* C18: in the orbit / mass-bin view every payload of known mass and orbit is
\* counted in exactly one bin: the first for mass < 500, the second for
\* 500 <= mass < 2000, the third for mass >= 2000.
C18_MassBinBoundaries ==
    last.op = "plan_successful_launch" =>
        LET frame == plots["orbit_mass_profiles.csv"][1]
            Bin(mass) == IF mass < 500 THEN "0-500 kg"
                         ELSE IF mass < 2000 THEN "500-2000 kg" ELSE "2000+ kg"
            Binned(orbit, bin) ==
                {k \in Missions(store) :
                    /\ MissionPayload(store, k).mass_kg # NullNum
                    /\ MissionPayload(store, k).orbit = orbit
                    /\ Bin(MissionPayload(store, k).mass_kg) = bin}
        IN  /\ \A k \in 1..Len(frame) :
                  frame[k].missions = Cardinality(Binned(frame[k].orbit, frame[k].mass_bin))
            /\ \A m \in Missions(store) :
                  MissionPayload(store, m).mass_kg # NullNum =>
                      Cardinality({k \in 1..Len(frame) :
                          /\ frame[k].orbit = MissionPayload(store, m).orbit
                          /\ frame[k].mass_bin = Bin(MissionPayload(store, m).mass_kg)}) = 1

\* The view of a store whose payloads weigh 500 and 2000: two bins.
C18_Witness ==
    /\ last.op = "plan_successful_launch"
    /\ store.payloads[1].mass_kg = 500
    /\ store.payloads[2].mass_kg = 2000
    /\ Len(plots["orbit_mass_profiles.csv"][1]) = 2

\* The launches of the year whose success is known.
KnownInYear(db, year) ==
    {i \in LaunchIndex(db) :
        Year(db.launches[i].date_utc) = year /\ db.launches[i].success # NULL}

\* C19: in the success-by-year view each year's denominator is the number of
\* its launches with known success (its rate is taken over them), and a year
\* whose launches all have unknown success does not appear.
C19_YearExcludesUnknown ==
    (last.op = "plan_successful_launch" /\ plots["success_by_year.csv"] # NoFile) =>
        LET frame == plots["success_by_year.csv"][1]
        IN  \A k \in 1..Len(frame) :
                LET known == KnownInYear(store, frame[k].year)
                    won == {i \in known : store.launches[i].success = "1"}
                IN  /\ known # {}
                    /\ frame[k].launches = Cardinality(known)
                    /\ frame[k].success_rate = SuccessRate(Cardinality(won), Cardinality(known))

\* The launches counted by the groups of a fatigue table.
RECURSIVE CountedLaunches(_)
CountedLaunches(groups) ==
    IF groups = {} THEN 0
    ELSE LET g == CHOOSE x \in groups : TRUE
         IN  g.launches + CountedLaunches(groups \ {g})

\* C20: for every rocket, the number of launches the rocket success-rate view
\* divides by equals the number of launches its launch_number groups of the
\* fatigue view count together.
C20_SameDenominators ==
    (plots["rocket_success_rates.png"] # NoFile /\ plots["rocket_fatigue.csv"] # NoFile) =>
        LET rates == plots["rocket_success_rates.png"][1]
            fatigue == plots["rocket_fatigue.csv"][1]
        IN  \A k \in 1..Len(rates) :
                rates[k].total_launches
                    = CountedLaunches({g \in fatigue : g.rocket = rates[k].rocket})

----------------------------------------------------------------------------
(* Properties of the fatigue and stability analyses                         *)

\* The launches of a rocket that enter the fatigue view.
Rated(db, rocket) == {i \in SequentialLaunches(db) : RocketName(db, i) = rocket}
DistinctDates(db, S) ==
    \A i, j \in S : i # j => db.launches[i].date_utc # db.launches[j].date_utc
\* The 1-based position of launch i among the launches S in order of date.
Position(db, S, i) ==
    1 + Cardinality({j \in S : db.launches[j].date_utc < db.launches[i].date_utc})

\* C21: for every rocket whose rated launches have pairwise distinct dates,
\* the launch numbers of the fatigue output are exactly 1..n, and the group of
\* number k holds the one launch that is k-th in order of date_utc, whatever
\* the order in which the launches were ingested.
C21_SequencingIndependentOfOrder ==
    plots["rocket_fatigue.csv"] # NoFile =>
        LET fatigue == plots["rocket_fatigue.csv"][1]
        IN  \A rocket \in {RocketName(store, i) : i \in SequentialLaunches(store)} :
                LET S == Rated(store, rocket)
                IN  DistinctDates(store, S) =>
                        /\ {g.launch_number : g \in {h \in fatigue : h.rocket = rocket}}
                               = 1..Cardinality(S)
                        /\ \A i \in S : \E g \in fatigue :
                               /\ g.rocket = rocket
                               /\ g.launch_number = Position(store, S, i)
                               /\ g.launches = 1
                               /\ g.successful = Aggregate(store, {i}).successful

\* Three rated launches of one rocket with distinct dates, ingested in another
\* order than that of their dates, were numbered.
C21_Witness ==
    /\ plots["rocket_fatigue.csv"] # NoFile
    /\ \E rocket \in {RocketName(store, i) : i \in SequentialLaunches(store)} :
          LET S == Rated(store, rocket)
          IN  /\ Cardinality(S) = 3
              /\ DistinctDates(store, S)
              /\ \E i, j \in S : i < j /\ store.launches[i].date_utc > store.launches[j].date_utc
              /\ \E i, j \in S : Aggregate(store, {i}).successful # Aggregate(store, {j}).successful

\* C22 (as claimed): in the configuration-stability output no row belongs to
\* a (rocket, launchpad) group whose mean yearly success rate is zero, and no
\* row carries an undefined (NaN) or infinite coefficient of variation.
C22_DegenerateGroupsExcluded ==
    plots["config_stability.csv"] # NoFile =>
        LET stats == plots["config_stability.csv"][1]
        IN  \A k \in 1..Len(stats) : stats[k].mean.sum # 0 /\ stats[k].cv # NaN

\* The yearly rows of a configuration in the stability view.
YearlyRows(db, row) ==
    {y \in config_stability_sql(db) : y.rocket = row.rocket /\ y.launchpad = row.launchpad}
\* The yearly success rates of the configuration are all equal and non-zero.
EqualNonZeroRates(db, row) ==
    \E rate \in {y.success_rate : y \in YearlyRows(db, row)} :
        rate # 0 /\ \A y \in YearlyRows(db, row) : y.success_rate = rate
\* Row k has std = 0 and CV = 0.00 and comes before every row of larger CV.
RankedStable(stats, k) ==
    /\ stats[k].std.squared.num = 0 /\ stats[k].std.squared.den # 0
    /\ stats[k].cv = 0
    /\ \A m \in 1..Len(stats) : (stats[m].cv # NaN /\ stats[m].cv > 0) => k < m
\* The rows that have a CV are in ascending order of it.
AscendingByCV(stats) ==
    \A k, m \in 1..Len(stats) :
        (k < m /\ stats[k].cv # NaN /\ stats[m].cv # NaN) => stats[k].cv <= stats[m].cv

----------------------------------------------------------------------------
(* Properties of the synthesizer                                            *)

\* The rows of a view in any of its orders.
ViewRows(view) == UNION {{frame[k] : k \in 1..Len(frame)} : frame \in view}
\* The yearly rows of the years from the cutoff on.
RecentYears(db) == {y \in ViewRows(success_by_year_sql(db)) : y.year >= RecentFrom}
\* rate (hundredths) is the mean of the rates of the rows, rounded to 2 decimals.
IsRoundedMean(rate, rows) ==
    LET total[S \in SUBSET rows] ==
            IF S = {} THEN 0
            ELSE LET y == CHOOSE x \in S : TRUE IN y.success_rate + total[S \ {y}]
    IN  /\ rate # NaN
        /\ 2 * Cardinality(rows) * rate - 2 * total[rows] <= Cardinality(rows)
        /\ 2 * total[rows] - 2 * Cardinality(rows) * rate <= Cardinality(rows)

\* C24: whenever plan_successful_launch writes a recommendation, its rocket and
\* launchpad are those of a combinations row of maximal success_rate and, among
\* those, maximal launch count; its orbit and mass_bin those of an orbit /
\* mass-bin row of maximal success_rate and, among those, maximal mission
\* count; and its expected success rate is the mean, rounded to 2 decimals, of
\* the yearly success rates of exactly the years >= 2018 (undefined when there
\* is no such year).
C24_SynthesizerComposition ==
    (last.op = "plan_successful_launch" /\ last.caught = "none") =>
        LET rec == plots["launch_recommendation.md"][1]
            combos == ViewRows(rocket_launchpad_sql(store))
            orbits == ViewRows(orbit_mass_sql(store))
        IN  /\ \E row \in combos :
                  /\ row.rocket = rec.rocket /\ row.launchpad = rec.launchpad
                  /\ \A other \in combos :
                        \/ other.success_rate < row.success_rate
                        \/ other.success_rate = row.success_rate /\ other.launches <= row.launches
            /\ \E row \in orbits :
                  /\ row.orbit = rec.orbit /\ row.mass_bin = rec.mass_bin
                  /\ \A other \in orbits :
                        \/ other.success_rate < row.success_rate
                        \/ other.success_rate = row.success_rate /\ other.missions <= row.missions
            /\ IF RecentYears(store) = {}
               THEN rec.expected_success_rate = NaN
               ELSE IsRoundedMean(rec.expected_success_rate, RecentYears(store))

\* A recommendation was written where both ranked views have two rows of the
\* same success rate and different counts, and the years before and from 2018
\* on differ in their rates.
C24_Witness ==
    /\ last.op = "plan_successful_launch" /\ last.caught = "none"
    /\ \E row, other \in ViewRows(rocket_launchpad_sql(store)) :
          row.success_rate = other.success_rate /\ row.launches > other.launches
    /\ \E row, other \in ViewRows(orbit_mass_sql(store)) :
          row.success_rate = other.success_rate /\ row.missions > other.missions
    /\ \E y \in RecentYears(store) : \E z \in ViewRows(success_by_year_sql(store)) :
          z.year < RecentFrom /\ z.success_rate # y.success_rate
    /\ Cardinality(RecentYears(store)) = 2

\* The rated launches of the rocket that have the launch number.
Numbered(db, rocket, number) ==
    {i \in Rated(db, rocket) : launch_number(db, SequentialLaunches(db), i) = number}
\* The rockets with a rated launch.
RatedRockets(db) == {RocketName(db, i) : i \in SequentialLaunches(db)}

\* C25 (as claimed): in the fatigue output the group for launch number N
\* aggregates the N-th launch of every rocket that has one: it counts the
\* N-th launches of all rockets together.
C25_GroupsSpanFleet ==
    plots["rocket_fatigue.csv"] # NoFile =>
        LET fatigue == plots["rocket_fatigue.csv"][1]
        IN  \A g \in fatigue :
                g.launches = Cardinality(UNION {Numbered(store, rocket, g.launch_number) :
                                                    rocket \in RatedRockets(store)})

\* C25 (amended): the fatigue output has one group per rocket and launch
\* number; the group of a rocket for N counts that rocket's N-th launch only,
\* and its successful count is over that launch only.
C25_GroupsPerRocket ==
    plots["rocket_fatigue.csv"] # NoFile =>
        LET fatigue == plots["rocket_fatigue.csv"][1]
        IN  /\ \A g \in fatigue :
                  /\ Numbered(store, g.rocket, g.launch_number) # {}
                  /\ g.launches = Cardinality(Numbered(store, g.rocket, g.launch_number))
                  /\ g.successful
                       = Aggregate(store, Numbered(store, g.rocket, g.launch_number)).successful
                  /\ \A h \in fatigue :
                        (h.rocket = g.rocket /\ h.launch_number = g.launch_number) => h = g
            /\ \A rocket \in RatedRockets(store) : \A i \in Rated(store, rocket) :
                  \E g \in fatigue :
                      /\ g.rocket = rocket
                      /\ g.launch_number = launch_number(store, SequentialLaunches(store), i)

\* Two rockets each have a first launch of known outcome, one successful and
\* one not, and the fatigue output was written.
C25_Witness ==
    /\ plots["rocket_fatigue.csv"] # NoFile
    /\ \E r1, r2 \in RatedRockets(store) :
          /\ r1 # r2
          /\ Aggregate(store, Numbered(store, r1, 1)).successful = 1
          /\ Numbered(store, r2, 1) # {}
          /\ Aggregate(store, Numbered(store, r2, 1)).successful = 0

\* The files plan_successful_launch writes.
PlanArtifacts ==
    {"top_launchpad_configs.csv", "orbit_mass_profiles.csv", "success_by_year.csv",
     "launch_recommendation.md"}

\* C26 (as claimed): a call of plan_successful_launch writes all four of its
\* artifacts or none: when it does not write the recommendation it leaves the
\* three supporting CSVs as they were.
C26_AllOrNothing ==
    [][last'.op = "plan_successful_launch" =>
          \/ /\ last'.caught = "none"
             /\ \A f \in PlanArtifacts : plots'[f] # NoFile
          \/ \A f \in PlanArtifacts : plots'[f] = plots[f]]_vars

\* C27 (as claimed): whenever plan_successful_launch writes a recommendation,
\* the expected success rate it states is a defined number between 0 and 100
\* (0 to 10000 hundredths), also when no launch is in a year >= 2018.
C27_DefinedExpectedRate ==
    (last.op = "plan_successful_launch" /\ last.caught = "none") =>
        LET rec == plots["launch_recommendation.md"][1]
        IN  /\ rec.expected_success_rate # NaN
            /\ rec.expected_success_rate \in 0..10000

----------------------------------------------------------------------------
(* Properties of the loaders: records of one batch with the same id         *)

\* The places of the table t holding a row of the key.
Holding(db, t, key) == {i \in 1..Len(db[t]) : KeyOf(t, db[t][i]) = key}
\* The places in the batch of the call of a record that is the first of its
\* id and is followed by a record of the same id with other attributes.
FirstOfSeveral(call) ==
    LET t == TargetTable(call.op)
        rows == Attempted(call)
    IN  {i \in 1..Len(rows) :
            /\ \A k \in 1..(i - 1) : KeyOf(t, rows[k].row) # KeyOf(t, rows[i].row)
            /\ \E j \in (i + 1)..Len(rows) :
                  KeyOf(t, rows[j].row) = KeyOf(t, rows[i].row) /\ rows[j].row # rows[i].row}

\* C28 (as claimed): when a loader batch contains several records with the
\* same id and different attributes, exactly one row with that id is stored
\* after the call, and it is the row of the first such record of the batch.
C28_FirstOccurrenceWins ==
    last.op \in EntityLoaders =>
        LET t == TargetTable(last.op)
            rows == Attempted(last)
        IN  \A i \in FirstOfSeveral(last) :
                /\ Cardinality(Holding(store, t, KeyOf(t, rows[i].row))) = 1
                /\ rows[i].row \in Rows(store, t)

\* C28 (amended): when a loader call that returns normally was given several
\* records with the same non-null id and different attributes, exactly one row
\* with that id is stored after the call: the row stored before the call if
\* there was one, else the row of the first such record of the batch.
C28_FirstOccurrenceWinsIfNew ==
    [][(Called /\ last'.op \in EntityLoaders /\ last'.raised = "none") =>
          LET t == TargetTable(last'.op)
              rows == Attempted(last')
          IN  \A i \in FirstOfSeveral(last') :
                  LET key == KeyOf(t, rows[i].row)
                  IN  ~NotNullViolation(t, rows[i].row) =>
                         /\ Cardinality(Holding(store', t, key)) = 1
                         /\ IF Holding(store, t, key) # {}
                            THEN \A k \in Holding(store, t, key) : store'[t][k] = store[t][k]
                            ELSE rows[i].row \in Rows(store', t)]_vars

\* A batch of two rockets with the same id and different names was loaded
\* into a store without that id: the one row stored is that of the first.
C28_Witness ==
    /\ last.op = "insert_rockets" /\ last.raised = "none"
    /\ FirstOfSeveral(last) = {1}
    /\ Len(store.rockets) = 1
    /\ store.rockets[1] = Attempted(last)[1].row
    /\ store.rockets[1] # Attempted(last)[2].row

====
